---------------------------- MODULE Spec2Model ----------------------------
(***************************************************************************)
(* Budget ledger, usage recorder and chargeback report of the AgentGateway *)
(* demo scripts (src/demo_complete.py, src/demo_proxy.py).                 *)
(*                                                                         *)
(* Money is a Python float (IEEE-754 binary64).  Every amount the scripts  *)
(* compute is non-negative and below 1.0, so an amount is modelled exactly *)
(* as a natural number of units of 2^-75 dollars, written in four limbs of *)
(* 25 bits, lowest first: <<l0, l1, l2, l3>> is                            *)
(* (l0 + l1 * 2^25 + l2 * 2^50 + l3 * 2^75) * 2^-75 dollars, and l3 = 0    *)
(* for every amount below 1.0.  A negative amount, which only a caller of  *)
(* check_budget or update_budget can supply, is its magnitude with every   *)
(* limb negated.  The float operations round to 53 significant bits, ties  *)
(* to even, as binary64 does.  (TLC's integers are 32 bits wide, hence the *)
(* limbs.)                                                                 *)
(***************************************************************************)
EXTENDS Integers, Sequences, FiniteSets, TLC

(***************************************************************************)
(* binary64 arithmetic on amounts                                          *)
(***************************************************************************)
Precision == 53
LimbBits == 25
Limbs == 4
FracLimbs == 3
Base == 2 ^ LimbBits

Zero == <<0, 0, 0, 0>>

RECURSIVE AddLimbs(_, _, _, _)
AddLimbs(a, b, i, carry) ==
    IF i > Limbs
    THEN CASE carry = 0 -> <<>>
    ELSE LET s == a[i] + b[i] + carry
         IN  <<s % Base>> \o AddLimbs(a, b, i + 1, s \div Base)

\* the exact sum of two amounts
ExactAdd(a, b) == AddLimbs(a, b, 1, 0)

\* the number of significant bits of a limb, and of an amount
LimbLength(x) == Cardinality({j \in 0..(LimbBits - 1) : 2 ^ j <= x})
BitLength(a) ==
    IF a = Zero THEN 0
    ELSE LET top == CHOOSE i \in 1..Limbs :
                        a[i] # 0 /\ \A j \in (i + 1)..Limbs : a[j] = 0
         IN  (top - 1) * LimbBits + LimbLength(a[top])

\* round to nearest, ties to even, keeping Precision significant bits (the
\* bits dropped lie in the lowest limb for every amount below 4.0)
RoundNearestEven(a) ==
    LET q == BitLength(a) - Precision
    IN  CASE q <= 0 -> a
          [] q \in 1..(LimbBits - 1) ->
                LET unit == 2 ^ q
                    r    == a[1] % unit
                    kept == [a EXCEPT ![1] = a[1] - r]
                    odd  == (a[1] \div unit) % 2 = 1
                    up   == 2 * r > unit \/ (2 * r = unit /\ odd)
                IN  IF up THEN ExactAdd(kept, [Zero EXCEPT ![1] = unit]) ELSE kept

\* sign and magnitude
IsNegative(a) == \E i \in 1..Limbs : a[i] < 0
Negated(a) == [i \in 1..Limbs |-> 0 - a[i]]
Magnitude(a) == IF IsNegative(a) THEN Negated(a) ELSE a

\* magnitude > magnitude
GtMagnitude(a, b) ==
    \E i \in 1..Limbs : a[i] > b[i] /\ \A j \in (i + 1)..Limbs : a[j] = b[j]

\* the exact difference a - b of two magnitudes, a not below b
RECURSIVE SubLimbs(_, _, _, _)
SubLimbs(a, b, i, borrow) ==
    IF i > Limbs
    THEN CASE borrow = 0 -> <<>>
    ELSE LET d == a[i] - b[i] - borrow
         IN  IF d < 0
             THEN <<d + Base>> \o SubLimbs(a, b, i + 1, 1)
             ELSE <<d>> \o SubLimbs(a, b, i + 1, 0)

ExactSub(a, b) == SubLimbs(a, b, 1, 0)

\* float + float; x + (-x) is +0.0
FAdd(a, b) ==
    CASE ~IsNegative(a) /\ ~IsNegative(b) -> RoundNearestEven(ExactAdd(a, b))
      [] IsNegative(a) /\ IsNegative(b) ->
            Negated(RoundNearestEven(ExactAdd(Negated(a), Negated(b))))
      [] OTHER ->
            LET plus  == IF IsNegative(a) THEN b ELSE a
                minus == Negated(IF IsNegative(a) THEN a ELSE b)
            IN  IF GtMagnitude(minus, plus)
                THEN Negated(RoundNearestEven(ExactSub(minus, plus)))
                ELSE RoundNearestEven(ExactSub(plus, minus))

\* a small int (at most 32) times an amount, exactly
RECURSIVE MulLimbs(_, _, _, _)
MulLimbs(d, a, i, carry) ==
    IF i > Limbs
    THEN CASE carry = 0 -> <<>>
    ELSE LET p == a[i] * d + carry
         IN  <<p % Base>> \o MulLimbs(d, a, i + 1, p \div Base)

\* an int times an amount, exactly: by the base-32 digits of the int
RECURSIVE ExactMulInt(_, _)
ExactMulInt(n, a) ==
    IF n < 32 THEN MulLimbs(n, a, 1, 0)
    ELSE ExactAdd(MulLimbs(n % 32, a, 1, 0),
                  MulLimbs(32, ExactMulInt(n \div 32, a), 1, 0))

\* int * float
FMulInt(n, a) == RoundNearestEven(ExactMulInt(n, a))

\* float > float
FGt(a, b) ==
    CASE ~IsNegative(a) /\ ~IsNegative(b) -> GtMagnitude(a, b)
      [] IsNegative(a) /\ IsNegative(b) -> GtMagnitude(Negated(b), Negated(a))
      [] OTHER -> IsNegative(b)

\* f"{a:.4f}" of a non-negative amount: the amount in ten-thousandths of a
\* dollar, correctly rounded
Fmt4(a) ==
    LET m    == ExactMulInt(10000, a)
        k    == m[Limbs]
        half == [Zero EXCEPT ![FracLimbs] = Base \div 2]
        frac == [m EXCEPT ![Limbs] = 0]
        up   == FGt(frac, half) \/ (frac = half /\ k % 2 = 1)
    IN  k + (IF up THEN 1 ELSE 0)

(***************************************************************************)
(* Python values                                                           *)
(***************************************************************************)
\* Python's None where a tuple, a dict or a status is expected
None == <<>>
\* an absent user_id / team_id (None or ""): both are falsy, and the code
\* only ever tests them with "if x", "x or d" and dict.get
NoId == "<absent>"
Truthy(id) == id # NoId
\* x or d
Or(id, d) == IF Truthy(id) THEN id ELSE d

\* a dict in insertion order: a sequence of <<key, value>> pairs
Keys(d) == {d[i][1] : i \in 1..Len(d)}
Index(d, k) == CHOOSE i \in 1..Len(d) : d[i][1] = k
Get(d, k) == d[Index(d, k)][2]
Put(d, k, v) ==
    IF k \in Keys(d)
    THEN [d EXCEPT ![Index(d, k)] = <<k, v>>]
    ELSE Append(d, <<k, v>>)

(***************************************************************************)
(* State                                                                   *)
(***************************************************************************)
VARIABLES
    program,        \* the script that runs: "demo_complete" or "demo_proxy"
    user_budgets,   \* demo_complete.user_budgets
    cost_tracker,   \* the running script's cost_tracker
    ret,            \* the last call: its function, what it did, what it returned
    commits,        \* history: <<user_id, cost>> of every update_budget call
    pc,             \* of each handler running by statements: where it is
    frame           \* of each such handler: its local variables

vars == <<program, user_budgets, cost_tracker, ret, commits, pc, frame>>

\* bounds on the number of requests recorded by demo_complete.py and by
\* demo_proxy.py
MaxRequests == 2
MaxProxyRequests == 3

\* a call as ret keeps it: the function, the user_id it was given, what
\* check_budget answered (None when it was not asked), whether the request
\* was sent, and the value returned
Ret(fn, user_id, chk, posted, value) ==
    [fn |-> fn, user_id |-> user_id, chk |-> chk, posted |-> posted,
     value |-> value]

\* request paths that may run at the same time, one request each
MaxHandlers == 2
Handlers == 1..MaxHandlers

Idle == [stmt |-> "idle", loaded |-> FALSE]
Returned == [stmt |-> "returned", loaded |-> FALSE]
At(stmt) == [stmt |-> stmt, loaded |-> FALSE]

\* the locals of send_anthropic_message, update_budget and track_request,
\* and sorted_users of print_chargeback_report: the user ids in the order
\* of the sort, each standing for the by_user entry itself, which the list
\* refers to and does not copy (produced: history, the entries' values when
\* the list was made)
Frame0 ==
    [user_id |-> NoId, team_id |-> "none", chk |-> None,
     data |-> None, input_tokens |-> 0, output_tokens |-> 0, cost |-> Zero,
     loaded_int |-> 0, loaded_cost |-> Zero,
     sorted_users |-> <<>>, produced |-> <<>>]

(***************************************************************************)
(* Module constants of demo_complete.py                                    *)
(***************************************************************************)
\* 0.80 / 1_000_000 = 0x1.ad7f29abcaf49p-21
Anthropic_input == <<15908132, 28304693, 26, 0>>
\* 4.00 / 1_000_000 = 0x1.0c6f7a0b5ed8dp-18
Anthropic_output == <<12431776, 7305739, 134, 0>>
ANTHROPIC_PRICING == [input |-> Anthropic_input, output |-> Anthropic_output]

\* 0.15 / 1_000_000 = 0x1.421f5f40d8376p-23
OpenAI_input == <<885622, 1112826, 5, 0>>
\* 0.60 / 1_000_000 = 0x1.421f5f40d8376p-21
OpenAI_output == <<3542488, 4451304, 20, 0>>
OPENAI_PRICING ==
    [m \in {"gpt-4o-mini"} |-> [input |-> OpenAI_input, output |-> OpenAI_output]]

\* 2.00 / 1_000_000 = 0x1.0c6f7a0b5ed8dp-19
Grok_input == <<22993104, 3652869, 67, 0>>
\* 10.00 / 1_000_000 = 0x1.4f8b588e368f1p-17
Grok_output == <<14302272, 18264348, 335, 0>>
GROK_PRICING ==
    [m \in {"grok-4-fast-reasoning"} |->
        [input |-> Grok_input, output |-> Grok_output]]

\* the budget limits: the floats 0.02, 0.05, 0.06, 0.07, 0.08, 0.10, 0.15
D_0_02 == <<16121856, 21474836, 671088, 0>>
D_0_05 == <<6815744, 20132659, 1677721, 0>>
D_0_06 == <<14680064, 30870077, 2013265, 0>>
D_0_07 == <<23068672, 8053063, 2348810, 0>>
D_0_08 == <<30932992, 18790481, 2684354, 0>>
D_0_10 == <<13631488, 6710886, 3355443, 0>>
D_0_15 == <<19922944, 26843545, 5033164, 0>>

Budget(limit, team) == [limit |-> limit, spent |-> Zero, team |-> team]

\* user_budgets as the module sets it up
UserBudgets0 ==
    "alice"   :> Budget(D_0_05, "engineering")
 @@ "bob"     :> Budget(D_0_10, "engineering")
 @@ "charlie" :> Budget(D_0_02, "product")
 @@ "diana"   :> Budget(D_0_08, "marketing")
 @@ "evan"    :> Budget(D_0_06, "marketing")
 @@ "frank"   :> Budget(D_0_15, "sales")
 @@ "grace"   :> Budget(D_0_07, "data-science")
 @@ "henry"   :> Budget(D_0_05, "customer-support")

\* cost_tracker as the module sets it up
CostTracker0 == [requests |-> <<>>, by_user |-> <<>>, total_cost |-> Zero]

\* defaultdict(lambda: {...}) of by_user
UserStats0 == [requests |-> 0, input_tokens |-> 0, output_tokens |-> 0, cost |-> Zero]

(***************************************************************************)
(* Budget ledger                                                           *)
(***************************************************************************)
\* a message is the sequence of its pieces; "" is one empty piece
NoMessage == <<"">>

\* f"Budget exceeded. Limit: ${user['limit']:.4f}, Spent: ${user['spent']:.4f}"
BudgetExceeded(user) ==
    <<"Budget exceeded. Limit: $", Fmt4(user.limit), ", Spent: $", Fmt4(user.spent)>>

\* Faulty variants of check_budget, which the properties must tell from it:
\* one that forgets the estimate, one that allows everything, and one that
\* sets aside the estimates of the requests admitted and not yet charged
check_budget_without_estimate(ub, user_id, estimated_cost) ==
    IF user_id \notin DOMAIN ub
    THEN <<TRUE, NoMessage>>
    ELSE IF FGt(ub[user_id].spent, ub[user_id].limit)
         THEN <<FALSE, BudgetExceeded(ub[user_id])>>
         ELSE <<TRUE, NoMessage>>

check_budget_unlimited(ub, user_id, estimated_cost) == <<TRUE, NoMessage>>

check_budget_reserving(ub, user_id, estimated_cost) ==
    IF user_id \notin DOMAIN ub
    THEN <<TRUE, NoMessage>>
    ELSE LET admitted == {h \in Handlers : /\ pc[h].stmt \in {"post", "spent"}
                                           /\ frame[h].user_id = user_id}
             reserved == FMulInt(Cardinality(admitted), estimated_cost)
         IN  IF FGt(FAdd(FAdd(ub[user_id].spent, reserved), estimated_cost),
                    ub[user_id].limit)
             THEN <<FALSE, BudgetExceeded(ub[user_id])>>
             ELSE <<TRUE, NoMessage>>

\* and one that has the comparison the wrong way round
check_budget_flipped(ub, user_id, estimated_cost) ==
    IF user_id \notin DOMAIN ub
    THEN <<TRUE, NoMessage>>
    ELSE IF FGt(ub[user_id].limit, FAdd(ub[user_id].spent, estimated_cost))
         THEN <<FALSE, BudgetExceeded(ub[user_id])>>
         ELSE <<TRUE, NoMessage>>

\* check_budget: <<allowed, message>>; ub is user_budgets
check_budget(ub, user_id, estimated_cost) ==
    IF user_id \notin DOMAIN ub
    THEN <<TRUE, NoMessage>>
    ELSE LET user == ub[user_id]
         IN  IF FGt(FAdd(user.spent, estimated_cost), user.limit)
             THEN <<FALSE, BudgetExceeded(user)>>
             ELSE <<TRUE, NoMessage>>

\* Faulty variants of update_budget: one that opens an account for a user
\* it does not know, one that stops at the limit, one that assigns where it
\* should add
update_budget_setdefault(ub, user_id, cost) ==
    IF user_id \in DOMAIN ub
    THEN [ub EXCEPT ![user_id].spent = FAdd(@, cost)]
    ELSE (user_id :> [limit |-> Zero, spent |-> cost, team |-> "none"]) @@ ub

update_budget_capped(ub, user_id, cost) ==
    IF user_id \in DOMAIN ub
    THEN [ub EXCEPT ![user_id].spent =
              IF FGt(FAdd(@, cost), ub[user_id].limit)
              THEN ub[user_id].limit ELSE FAdd(@, cost)]
    ELSE ub

update_budget_assign(ub, user_id, cost) ==
    IF user_id \in DOMAIN ub
    THEN [ub EXCEPT ![user_id].spent = cost]
    ELSE ub

\* A faulty variant of update_budget: it adds the cost twice
update_budget_doubling(ub, user_id, cost) ==
    IF user_id \in DOMAIN ub
    THEN [ub EXCEPT ![user_id].spent = FAdd(FAdd(@, cost), cost)]
    ELSE ub

\* update_budget: the new user_budgets
update_budget(ub, user_id, cost) ==
    IF user_id \in DOMAIN ub
    THEN [ub EXCEPT ![user_id].spent = FAdd(@, cost)]
    ELSE ub

(***************************************************************************)
(* Cost calculator                                                         *)
(***************************************************************************)
calculate_anthropic_cost(input_tokens, output_tokens) ==
    FAdd(FMulInt(input_tokens, ANTHROPIC_PRICING.input),
         FMulInt(output_tokens, ANTHROPIC_PRICING.output))

\* dict.get(model, default)
PricingGet(table, model, default) ==
    IF model \in DOMAIN table THEN table[model] ELSE table[default]

calculate_openai_cost(input_tokens, output_tokens, model) ==
    LET pricing == PricingGet(OPENAI_PRICING, model, "gpt-4o-mini")
    IN  FAdd(FMulInt(input_tokens, pricing.input),
             FMulInt(output_tokens, pricing.output))

calculate_grok_cost(input_tokens, output_tokens, model) ==
    LET pricing == PricingGet(GROK_PRICING, model, "grok-4-fast-reasoning")
    IN  FAdd(FMulInt(input_tokens, pricing.input),
             FMulInt(output_tokens, pricing.output))

(***************************************************************************)
(* Usage recorder                                                          *)
(***************************************************************************)
\* A faulty variant of the record: without a user it drops the team as well
RequestRecord_team_of_user(user_id, team_id, input_tokens, output_tokens, cost) ==
    [user_id       |-> Or(user_id, "anonymous"),
     team_id       |-> IF Truthy(user_id) THEN Or(team_id, "none") ELSE "none",
     input_tokens  |-> input_tokens,
     output_tokens |-> output_tokens,
     cost          |-> cost]

\* the record track_request builds (timestamp and elapsed_time, read from
\* the clock and used by nothing, are left out)
RequestRecord(user_id, team_id, input_tokens, output_tokens, cost) ==
    [user_id       |-> Or(user_id, "anonymous"),
     team_id       |-> Or(team_id, "none"),
     input_tokens  |-> input_tokens,
     output_tokens |-> output_tokens,
     cost          |-> cost]

\* cost_tracker["by_user"][user_key]: the defaultdict's value, made on a miss
StatsOf(by_user, user_key) ==
    IF user_key \in Keys(by_user) THEN Get(by_user, user_key) ELSE UserStats0

\* A faulty variant of track_request: it puts the new record at the front
track_request_prepending(ct, user_id, team_id, input_tokens, output_tokens, cost) ==
    LET user_key == Or(user_id, "anonymous")
        old == StatsOf(ct.by_user, user_key)
        new == [requests      |-> old.requests + 1,
                input_tokens  |-> old.input_tokens + input_tokens,
                output_tokens |-> old.output_tokens + output_tokens,
                cost          |-> FAdd(old.cost, cost)]
    IN  [requests   |-> <<RequestRecord(user_id, team_id, input_tokens,
                                        output_tokens, cost)>> \o ct.requests,
         by_user    |-> Put(ct.by_user, user_key, new),
         total_cost |-> FAdd(ct.total_cost, cost)]

\* track_request: the new cost_tracker; ct is cost_tracker
track_request(ct, user_id, team_id, input_tokens, output_tokens, cost) ==
    LET user_key == Or(user_id, "anonymous")
        old == StatsOf(ct.by_user, user_key)
        new == [requests      |-> old.requests + 1,
                input_tokens  |-> old.input_tokens + input_tokens,
                output_tokens |-> old.output_tokens + output_tokens,
                cost          |-> FAdd(old.cost, cost)]
    IN  [requests   |-> Append(ct.requests,
                          RequestRecord(user_id, team_id, input_tokens,
                                        output_tokens, cost)),
         by_user    |-> Put(ct.by_user, user_key, new),
         total_cost |-> FAdd(ct.total_cost, cost)]


(***************************************************************************)
(* Chargeback report                                                       *)
(***************************************************************************)
\* Faulty variants of the sort: one that puts an item before the items of
\* equal cost, one that sorts by ascending cost
InsertByCost_ties_first(sorted, item) ==
    LET n == Cardinality({i \in 1..Len(sorted) :
                             FGt(sorted[i][2].cost, item[2].cost)})
    IN  SubSeq(sorted, 1, n) \o <<item>> \o SubSeq(sorted, n + 1, Len(sorted))

InsertAscending(sorted, item) ==
    LET n == Cardinality({i \in 1..Len(sorted) :
                             ~FGt(sorted[i][2].cost, item[2].cost)})
    IN  SubSeq(sorted, 1, n) \o <<item>> \o SubSeq(sorted, n + 1, Len(sorted))

RECURSIVE SortedByCost_ascending(_)
SortedByCost_ascending(items) ==
    IF items = <<>> THEN <<>>
    ELSE InsertAscending(SortedByCost_ascending(SubSeq(items, 1, Len(items) - 1)),
                         items[Len(items)])

\* sorted(items, key=lambda x: x[1]["cost"], reverse=True): a stable sort, so
\* items of equal cost keep the order they have in the dict
InsertByCost(sorted, item) ==
    LET n == Cardinality({i \in 1..Len(sorted) :
                             ~FGt(item[2].cost, sorted[i][2].cost)})
    IN  SubSeq(sorted, 1, n) \o <<item>> \o SubSeq(sorted, n + 1, Len(sorted))

RECURSIVE SortedByCost(_)
SortedByCost(items) ==
    IF items = <<>> THEN <<>>
    ELSE InsertByCost(SortedByCost(SubSeq(items, 1, Len(items) - 1)),
                      items[Len(items)])

\* team_costs: the requests regrouped by team_id, in first-seen order
TeamStats0 == [cost |-> Zero, requests |-> 0]

\* A faulty variant of the regrouping: it assigns the cost where it should add
RECURSIVE TeamCosts_assigning(_)
TeamCosts_assigning(requests) ==
    IF requests = <<>> THEN <<>>
    ELSE LET before == TeamCosts_assigning(SubSeq(requests, 1, Len(requests) - 1))
             req    == requests[Len(requests)]
             old    == IF req.team_id \in Keys(before)
                       THEN Get(before, req.team_id) ELSE TeamStats0
         IN  Put(before, req.team_id,
                 [cost |-> req.cost, requests |-> old.requests + 1])

RECURSIVE TeamCosts(_)
TeamCosts(requests) ==
    IF requests = <<>> THEN <<>>
    ELSE LET before == TeamCosts(SubSeq(requests, 1, Len(requests) - 1))
             req    == requests[Len(requests)]
             old    == IF req.team_id \in Keys(before)
                       THEN Get(before, req.team_id) ELSE TeamStats0
         IN  Put(before, req.team_id,
                 [cost |-> FAdd(old.cost, req.cost), requests |-> old.requests + 1])

\* sum(...) of integers
RECURSIVE SumInt(_)
SumInt(xs) == IF xs = <<>> THEN 0 ELSE SumInt(Tail(xs)) + Head(xs)

\* sum(...) of floats, added left to right from 0
RECURSIVE SumFloat(_)
SumFloat(xs) ==
    IF xs = <<>> THEN Zero
    ELSE FAdd(SumFloat(SubSeq(xs, 1, Len(xs) - 1)), xs[Len(xs)])

Column(items, field) == [i \in 1..Len(items) |-> items[i][2][field]]

\* what print_chargeback_report computes and prints, of cost_tracker ct
ChargebackReport(ct) ==
    LET sorted_users == SortedByCost(ct.by_user)
        team_costs   == TeamCosts(ct.requests)
        per_team     == Len(team_costs) > 1 \/ "none" \notin Keys(team_costs)
        sorted_teams == SortedByCost(team_costs)
    IN  [total_requests |-> Len(ct.requests),
         total_cost     |-> ct.total_cost,
         sorted_users   |-> sorted_users,
         user_total     |-> [requests      |-> SumInt(Column(sorted_users, "requests")),
                             input_tokens  |-> SumInt(Column(sorted_users, "input_tokens")),
                             output_tokens |-> SumInt(Column(sorted_users, "output_tokens")),
                             cost          |-> ct.total_cost],
         sorted_teams   |-> IF per_team THEN <<sorted_teams>> ELSE None,
         team_total     |-> IF per_team
                            THEN <<[requests |-> SumInt(Column(sorted_teams, "requests")),
                                    cost     |-> SumFloat(Column(sorted_teams, "cost"))]>>
                            ELSE None]

(***************************************************************************)
(* The state after the module is loaded                                    *)
(***************************************************************************)
Init ==
    /\ pc = [h \in Handlers |-> Idle]
    /\ frame = [h \in Handlers |-> Frame0]
    /\ program \in {"demo_complete", "demo_proxy"}
    /\ user_budgets = UserBudgets0
    /\ cost_tracker = CostTracker0
    /\ ret = Ret("", NoId, None, FALSE, None)
    /\ commits = <<>>

(***************************************************************************)
(* The gateway's answer to a POST: an exception of requests.post, or a     *)
(* status code with a JSON body, of which the scripts read "usage" (None   *)
(* when the body has none) and, when they print it, the reply's text       *)
(* (text_ok: indexing it does not raise).                                  *)
(***************************************************************************)
Response(raises, status_code, usage, text_ok) ==
    [raises |-> raises, status_code |-> status_code, usage |-> usage,
     text_ok |-> text_ok]

\* usage as the gateway reports it: <<input tokens, output tokens>>.  The
\* first pair is the one the estimate assumes; after the second, one more
\* estimate still fits under the lowest limit; after the third, none does
TokenPairs == {<<15, 100>>, <<15, 4800>>, <<15, 4900>>}

\* a reply whose text cannot be read comes with the first pair only
ResponsesOf(pairs) ==
    {Response(TRUE, 0, None, TRUE)}
    \cup {Response(FALSE, c, None, TRUE) : c \in {429, 500}}
    \cup {Response(FALSE, 200, None, TRUE)}
    \cup {Response(FALSE, 200, <<t>>, TRUE) : t \in pairs}
    \cup {Response(FALSE, 200, <<<<15, 100>>>>, FALSE)}

Responses == ResponsesOf(TokenPairs)
OtherProviderResponses == ResponsesOf({<<15, 100>>})

(***************************************************************************)
(* demo_complete.py: the request handlers, each run from call to return    *)
(***************************************************************************)
\* user_budgets.get(user_id, {}).get("team", "none") if user_id else "none"
TeamOf(ub, user_id) ==
    IF Truthy(user_id) /\ user_id \in DOMAIN ub THEN ub[user_id].team ELSE "none"

\* the rough estimate of send_anthropic_message: 15 input, 100 output tokens
EstimatedCost == calculate_anthropic_cost(15, 100)

\* A faulty variant of send_anthropic_message: it charges the estimate when
\* it admits the request, and then the POST fails
send_anthropic_message_reserving(user_id, show_response, check_budget_flag, resp) ==
    /\ program = "demo_complete"
    /\ check_budget_flag /\ Truthy(user_id) /\ resp.raises
    /\ check_budget(user_budgets, user_id, EstimatedCost)[1]
    /\ user_budgets' = update_budget(user_budgets, user_id, EstimatedCost)
    /\ ret' = Ret("send_anthropic_message", user_id, <<TRUE, NoMessage>>, TRUE,
                  <<FALSE, None, Zero, None>>)
    /\ UNCHANGED <<program, cost_tracker, commits, pc, frame>>

\* A faulty variant of send_anthropic_message: it records a request that the
\* gateway answered with status 500
send_anthropic_message_recording_failures(user_id, show_response, check_budget_flag, resp) ==
    /\ program = "demo_complete"
    /\ ~resp.raises /\ resp.status_code = 500
    /\ Len(cost_tracker.requests) < MaxRequests
    /\ cost_tracker' = track_request(cost_tracker, user_id,
                                     TeamOf(user_budgets, user_id), 0, 0, Zero)
    /\ ret' = Ret("send_anthropic_message", user_id, None, TRUE,
                  <<FALSE, None, Zero, <<500>>>>)
    /\ UNCHANGED <<program, user_budgets, commits, pc, frame>>

send_anthropic_message(user_id, show_response, check_budget_flag, resp) ==
    LET team_id == TeamOf(user_budgets, user_id)
        enforce == check_budget_flag /\ Truthy(user_id)
        chk     == IF enforce
                   THEN check_budget(user_budgets, user_id, EstimatedCost)
                   ELSE None
        fn      == "send_anthropic_message"
    IN  /\ program = "demo_complete"
        /\ IF enforce /\ ~chk[1]
           THEN \* budget exceeded: nothing is sent
                /\ ret' = Ret(fn, user_id, chk, FALSE, <<FALSE, None, Zero, <<429>>>>)
                /\ UNCHANGED <<user_budgets, cost_tracker, commits>>
           ELSE IF resp.raises
           THEN /\ ret' = Ret(fn, user_id, chk, TRUE, <<FALSE, None, Zero, None>>)
                /\ UNCHANGED <<user_budgets, cost_tracker, commits>>
           ELSE IF resp.status_code = 200
           THEN IF resp.usage # None
                THEN LET input_tokens  == resp.usage[1][1]
                         output_tokens == resp.usage[1][2]
                         cost == calculate_anthropic_cost(input_tokens, output_tokens)
                     IN  /\ Len(cost_tracker.requests) < MaxRequests
                         /\ user_budgets' =
                                IF enforce
                                THEN update_budget(user_budgets, user_id, cost)
                                ELSE user_budgets
                         /\ commits' = IF enforce
                                       THEN Append(commits, <<user_id, cost>>)
                                       ELSE commits
                         /\ cost_tracker' =
                                track_request(cost_tracker, user_id, team_id,
                                              input_tokens, output_tokens, cost)
                         /\ ret' = Ret(fn, user_id, chk, TRUE,
                                       IF show_response /\ ~resp.text_ok
                                       THEN \* printing the reply raised
                                            <<FALSE, None, Zero, None>>
                                       ELSE <<TRUE, <<resp>>, cost, <<200>>>>)
                ELSE \* no "usage": control leaves the if without a return
                     /\ ret' = Ret(fn, user_id, chk, TRUE, None)
                     /\ UNCHANGED <<user_budgets, cost_tracker, commits>>
           ELSE /\ ret' = Ret(fn, user_id, chk, TRUE,
                              <<FALSE, None, Zero, <<resp.status_code>>>>)
                /\ UNCHANGED <<user_budgets, cost_tracker, commits>>
        /\ UNCHANGED <<program, pc, frame>>

\* send_openai_message and send_grok_message differ in the URL, the model
\* and the cost function only
ProviderCost(fn, prompt_tokens, completion_tokens) ==
    IF fn = "send_openai_message"
    THEN calculate_openai_cost(prompt_tokens, completion_tokens, "gpt-4o-mini")
    ELSE calculate_grok_cost(prompt_tokens, completion_tokens,
                             "grok-4-fast-reasoning")

SendWithoutBudget(fn, user_id, show_response, resp) ==
    LET team_id == TeamOf(user_budgets, user_id)
    IN  /\ program = "demo_complete"
        /\ IF resp.raises
           THEN /\ ret' = Ret(fn, user_id, None, TRUE, <<FALSE, None, Zero>>)
                /\ UNCHANGED cost_tracker
           ELSE IF resp.status_code = 200
           THEN IF resp.usage # None
                THEN LET input_tokens  == resp.usage[1][1]
                         output_tokens == resp.usage[1][2]
                         cost == ProviderCost(fn, input_tokens, output_tokens)
                     IN  /\ Len(cost_tracker.requests) < MaxRequests
                         /\ cost_tracker' =
                                track_request(cost_tracker, user_id, team_id,
                                              input_tokens, output_tokens, cost)
                         /\ ret' = Ret(fn, user_id, None, TRUE,
                                       IF show_response /\ ~resp.text_ok
                                       THEN <<FALSE, None, Zero>>
                                       ELSE <<TRUE, <<resp>>, cost>>)
                ELSE /\ ret' = Ret(fn, user_id, None, TRUE, None)
                     /\ UNCHANGED cost_tracker
           ELSE /\ ret' = Ret(fn, user_id, None, TRUE, <<FALSE, None, Zero>>)
                /\ UNCHANGED cost_tracker
        /\ UNCHANGED <<program, user_budgets, commits, pc, frame>>

\* A faulty variant of send_openai_message: it charges the user's budget
send_openai_message_charging(user_id, show_response, resp) ==
    LET cost == calculate_openai_cost(resp.usage[1][1], resp.usage[1][2],
                                      "gpt-4o-mini")
    IN  /\ program = "demo_complete"
        /\ ~resp.raises /\ resp.status_code = 200 /\ resp.usage # None
        /\ Len(cost_tracker.requests) < MaxRequests
        /\ user_budgets' = update_budget(user_budgets, user_id, cost)
        /\ cost_tracker' =
               track_request(cost_tracker, user_id, TeamOf(user_budgets, user_id),
                             resp.usage[1][1], resp.usage[1][2], cost)
        /\ ret' = Ret("send_openai_message", user_id, None, TRUE,
                      <<TRUE, <<resp>>, cost>>)
        /\ UNCHANGED <<program, commits, pc, frame>>

send_openai_message(user_id, show_response, resp) ==
    SendWithoutBudget("send_openai_message", user_id, show_response, resp)

send_grok_message(user_id, show_response, resp) ==
    SendWithoutBudget("send_grok_message", user_id, show_response, resp)

\* A faulty variant of the report: it leaves by_user sorted as it printed it
print_chargeback_report_sorting ==
    /\ ret' = Ret("print_chargeback_report", NoId, None, FALSE,
                  <<ChargebackReport(cost_tracker)>>)
    /\ cost_tracker' = [cost_tracker EXCEPT !.by_user = SortedByCost(@)]
    /\ UNCHANGED <<program, user_budgets, commits, pc, frame>>

\* either script's report
print_chargeback_report ==
    /\ ret' = Ret("print_chargeback_report", NoId, None, FALSE,
                  <<ChargebackReport(cost_tracker)>>)
    /\ UNCHANGED <<program, user_budgets, cost_tracker, commits, pc, frame>>

(***************************************************************************)
(* demo_proxy.py                                                           *)
(***************************************************************************)
\* PRICING of demo_proxy.py holds the same two prices as ANTHROPIC_PRICING
PRICING == [m \in {"claude-haiku-4-5-20251001"} |-> ANTHROPIC_PRICING]

calculate_cost(input_tokens, output_tokens, model) ==
    LET pricing     == PricingGet(PRICING, model, "claude-haiku-4-5-20251001")
        input_cost  == FMulInt(input_tokens, pricing.input)
        output_cost == FMulInt(output_tokens, pricing.output)
    IN  FAdd(input_cost, output_cost)

send_message(show_response, user_id, team_id, resp) ==
    LET fn == "send_message"
    IN  /\ program = "demo_proxy"
        /\ IF resp.raises
           THEN /\ ret' = Ret(fn, user_id, None, TRUE, <<FALSE, None, None>>)
                /\ UNCHANGED cost_tracker
           ELSE IF resp.status_code = 200
           THEN /\ IF resp.usage # None
                   THEN LET input_tokens  == resp.usage[1][1]
                            output_tokens == resp.usage[1][2]
                            cost == calculate_cost(input_tokens, output_tokens,
                                                   "claude-haiku-4-5-20251001")
                        IN  /\ Len(cost_tracker.requests) < MaxProxyRequests
                            /\ cost_tracker' =
                                   track_request(cost_tracker, user_id, team_id,
                                                 input_tokens, output_tokens, cost)
                   ELSE UNCHANGED cost_tracker
                /\ ret' = Ret(fn, user_id, None, TRUE,
                              IF show_response /\ ~resp.text_ok
                              THEN <<FALSE, None, None>>
                              ELSE <<TRUE, <<200>>, <<resp>>>>)
           ELSE /\ ret' = Ret(fn, user_id, None, TRUE,
                              <<FALSE, <<resp.status_code>>, None>>)
                /\ UNCHANGED cost_tracker
        /\ UNCHANGED <<program, user_budgets, commits, pc, frame>>

(***************************************************************************)
(* send_anthropic_message(message, user_id, check_budget=True), run by      *)
(* several handlers at once.  Nothing in the scripts takes a lock, so a    *)
(* handler may be overtaken between any two reads or writes of             *)
(* user_budgets and cost_tracker; x += y is a read followed by a write.    *)
(***************************************************************************)
Running == {h \in Handlers : pc[h] \notin {Idle, Returned}}

Return(h, value) ==
    /\ ret' = Ret("send_anthropic_message", frame[h].user_id, frame[h].chk,
                  TRUE, value)
    /\ pc' = [pc EXCEPT ![h] = Returned]
    /\ frame' = [frame EXCEPT ![h] = Frame0]

\* lines 218-252: team lookup, estimate, check_budget, building the request
check_then_post(h, user_id) ==
    LET enforce == Truthy(user_id)
        chk     == IF enforce
                   THEN check_budget(user_budgets, user_id, EstimatedCost)
                   ELSE None
    IN  /\ program = "demo_complete"
        /\ pc[h] = Idle
        /\ IF enforce /\ ~chk[1]
           THEN /\ ret' = Ret("send_anthropic_message", user_id, chk, FALSE,
                              <<FALSE, None, Zero, <<429>>>>)
                /\ pc' = [pc EXCEPT ![h] = Returned]
                /\ UNCHANGED frame
           ELSE /\ pc' = [pc EXCEPT ![h] = At("post")]
                /\ frame' = [frame EXCEPT ![h] =
                                [Frame0 EXCEPT !.user_id = user_id,
                                               !.team_id = TeamOf(user_budgets, user_id),
                                               !.chk = chk]]
                /\ UNCHANGED ret
        /\ UNCHANGED <<program, user_budgets, cost_tracker, commits>>

\* lines 254-269: the answer arrives; usage is read and the cost computed
post_returns(h, resp) ==
    /\ pc[h] = At("post")
    /\ IF resp.raises
       THEN Return(h, <<FALSE, None, Zero, None>>)
       ELSE IF resp.status_code # 200
       THEN Return(h, <<FALSE, None, Zero, <<resp.status_code>>>>)
       ELSE IF resp.usage = None
       THEN Return(h, None)
       ELSE /\ pc' = [pc EXCEPT ![h] = At("spent")]
            /\ frame' = [frame EXCEPT
                            ![h].data = <<resp>>,
                            ![h].input_tokens = resp.usage[1][1],
                            ![h].output_tokens = resp.usage[1][2],
                            ![h].cost = calculate_anthropic_cost(resp.usage[1][1],
                                                                 resp.usage[1][2])]
            /\ UNCHANGED ret
    /\ UNCHANGED <<program, user_budgets, cost_tracker, commits>>

\* lines 272-273, 106-107: user_budgets[user_id]["spent"] += cost, the read
update_budget_load(h) ==
    LET user_id == frame[h].user_id
    IN  /\ pc[h] = At("spent")
        /\ IF Truthy(user_id) /\ user_id \in DOMAIN user_budgets
           THEN /\ pc' = [pc EXCEPT ![h].loaded = TRUE]
                /\ frame' = [frame EXCEPT
                                ![h].loaded_cost = user_budgets[user_id].spent]
           ELSE /\ pc' = [pc EXCEPT ![h] = At("append")]
                /\ UNCHANGED frame
        /\ UNCHANGED <<program, user_budgets, cost_tracker, ret, commits>>

\* line 107: user_budgets[user_id]["spent"] += cost, the write
update_budget_store(h) ==
    LET user_id == frame[h].user_id
    IN  /\ pc[h] = [stmt |-> "spent", loaded |-> TRUE]
        /\ user_budgets' = [user_budgets EXCEPT ![user_id].spent =
                               FAdd(frame[h].loaded_cost, frame[h].cost)]
        /\ commits' = Append(commits, <<user_id, frame[h].cost>>)
        /\ pc' = [pc EXCEPT ![h] = At("append")]
        /\ UNCHANGED <<program, cost_tracker, ret, frame>>

\* lines 199-207: cost_tracker["requests"].append({...})
track_request_append(h) ==
    /\ pc[h] = At("append")
    /\ cost_tracker' =
           [cost_tracker EXCEPT !.requests =
               Append(@, RequestRecord(frame[h].user_id, frame[h].team_id,
                                       frame[h].input_tokens,
                                       frame[h].output_tokens, frame[h].cost))]
    /\ pc' = [pc EXCEPT ![h] = At("requests")]
    /\ UNCHANGED <<program, user_budgets, ret, commits, frame>>

\* the statements of lines 210-213, in order, and what each adds
UserFields == <<"requests", "input_tokens", "output_tokens", "cost">>
After(field) ==
    CASE field = "requests"      -> "input_tokens"
      [] field = "input_tokens"  -> "output_tokens"
      [] field = "output_tokens" -> "cost"
      [] field = "cost"          -> "total_cost"

\* cost_tracker["by_user"][user_key][field] += ..., the read; the
\* defaultdict makes the entry when the key is new
track_request_load(h) ==
    LET user_key == Or(frame[h].user_id, "anonymous")
        field    == pc[h].stmt
        stats    == StatsOf(cost_tracker.by_user, user_key)
    IN  /\ \E i \in 1..Len(UserFields) : pc[h] = At(UserFields[i])
        /\ cost_tracker' = [cost_tracker EXCEPT !.by_user = Put(@, user_key, stats)]
        /\ frame' = IF field = "cost"
                    THEN [frame EXCEPT ![h].loaded_cost = stats.cost]
                    ELSE [frame EXCEPT ![h].loaded_int = stats[field]]
        /\ pc' = [pc EXCEPT ![h].loaded = TRUE]
        /\ UNCHANGED <<program, user_budgets, ret, commits>>

\* cost_tracker["by_user"][user_key][field] += ..., the write
track_request_store(h) ==
    LET user_key == Or(frame[h].user_id, "anonymous")
        field    == pc[h].stmt
        stats    == Get(cost_tracker.by_user, user_key)
        new      == CASE field = "requests" ->
                            [stats EXCEPT !.requests = frame[h].loaded_int + 1]
                      [] field = "input_tokens" ->
                            [stats EXCEPT !.input_tokens =
                                frame[h].loaded_int + frame[h].input_tokens]
                      [] field = "output_tokens" ->
                            [stats EXCEPT !.output_tokens =
                                frame[h].loaded_int + frame[h].output_tokens]
                      [] field = "cost" ->
                            [stats EXCEPT !.cost =
                                FAdd(frame[h].loaded_cost, frame[h].cost)]
    IN  /\ \E i \in 1..Len(UserFields) :
               pc[h] = [stmt |-> UserFields[i], loaded |-> TRUE]
        /\ cost_tracker' = [cost_tracker EXCEPT !.by_user = Put(@, user_key, new)]
        /\ pc' = [pc EXCEPT ![h] = At(After(field))]
        /\ UNCHANGED <<program, user_budgets, ret, commits, frame>>

\* line 216: cost_tracker["total_cost"] += cost, the read
total_cost_load(h) ==
    /\ pc[h] = At("total_cost")
    /\ frame' = [frame EXCEPT ![h].loaded_cost = cost_tracker.total_cost]
    /\ pc' = [pc EXCEPT ![h].loaded = TRUE]
    /\ UNCHANGED <<program, user_budgets, cost_tracker, ret, commits>>

\* line 216, the write; then lines 278-283: the handler returns
total_cost_store(h) ==
    /\ pc[h] = [stmt |-> "total_cost", loaded |-> TRUE]
    /\ cost_tracker' = [cost_tracker EXCEPT !.total_cost =
                           FAdd(frame[h].loaded_cost, frame[h].cost)]
    /\ Return(h, <<TRUE, frame[h].data, frame[h].cost, <<200>>>>)
    /\ UNCHANGED <<program, user_budgets, commits>>

(***************************************************************************)
(* The scripts call their handlers one after the other                     *)
(***************************************************************************)
\* callers: a known user with a low limit, an unknown user, and no user
UserIds == {"charlie", "rate-limit-test", NoId}
OtherProviderUserIds == {"charlie"}
ProxyCallers == {<<"alice", "engineering">>, <<"demo-user", NoId>>,
                 <<NoId, NoId>>}

Next ==
    \/ \E u \in UserIds, show \in BOOLEAN, flag \in BOOLEAN, r \in Responses :
           send_anthropic_message(u, show, flag, r)
    \/ \E u \in OtherProviderUserIds, show \in BOOLEAN,
          r \in OtherProviderResponses :
           send_openai_message(u, show, r)
    \/ \E u \in OtherProviderUserIds, show \in BOOLEAN,
          r \in OtherProviderResponses :
           send_grok_message(u, show, r)
    \/ \E c \in ProxyCallers, show \in BOOLEAN, r \in Responses :
           send_message(show, c[1], c[2], r)
    \/ print_chargeback_report

Spec == Init /\ [][Next]_vars

(***************************************************************************)
(* The handlers of demo_complete.py called from concurrent request paths   *)
(***************************************************************************)
ConcUserIds == {"charlie"}
ConcResponses ==
    {Response(FALSE, 429, None, TRUE)}
    \cup {Response(FALSE, 200, <<t>>, TRUE) : t \in {<<15, 100>>, <<15, 4800>>}}

InitConc == Init /\ program = "demo_complete"

\* the script's own calls, one after the other, come first
NextConc ==
    \/ /\ \A h \in Handlers : pc[h] = Idle
       /\ \E u \in ConcUserIds, r \in ConcResponses :
              send_anthropic_message(u, FALSE, TRUE, r)
    \/ \E h \in Handlers, u \in ConcUserIds : check_then_post(h, u)
    \/ \E h \in Handlers, r \in ConcResponses : post_returns(h, r)
    \/ \E h \in Handlers : update_budget_load(h)
    \/ \E h \in Handlers : update_budget_store(h)
    \/ \E h \in Handlers : track_request_append(h)
    \/ \E h \in Handlers : track_request_load(h)
    \/ \E h \in Handlers : track_request_store(h)
    \/ \E h \in Handlers : total_cost_load(h)
    \/ \E h \in Handlers : total_cost_store(h)

SpecConc == InitConc /\ [][NextConc]_vars

(***************************************************************************)
(* send_message of demo_proxy.py called for users of several teams, for    *)
(* callers that leave out the user, the team or both, and answered with    *)
(* usage that costs 0.00028, 0.01, 0.02 and 0.03                           *)
(***************************************************************************)
RecorderCallers ==
    {<<"alice", "engineering">>, <<"bob", "engineering">>,
     <<"diana", "marketing">>, <<"alice", NoId>>, <<NoId, "engineering">>,
     <<NoId, NoId>>}
RecorderTokenPairs == {<<100, 50>>, <<0, 2500>>, <<0, 5000>>, <<0, 7500>>}
RecorderResponses == {Response(FALSE, 200, <<t>>, TRUE) : t \in RecorderTokenPairs}

InitRecorder == Init /\ program = "demo_proxy"

NextRecorder ==
    \/ \E c \in RecorderCallers, r \in RecorderResponses :
           send_message(FALSE, c[1], c[2], r)
    \/ print_chargeback_report

SpecRecorder == InitRecorder /\ [][NextRecorder]_vars

(***************************************************************************)
(* print_chargeback_report of demo_complete.py run while requests are      *)
(* handled: sorted() makes a new list of the by_user entries, and the rows *)
(* and totals are read from those entries when they are printed.  The      *)
(* handlers here run from call to return without being overtaken.          *)
(***************************************************************************)
\* lines 753-757: sorted_users = sorted(cost_tracker["by_user"].items(), ...)
print_chargeback_report_sorted(h) ==
    LET items == SortedByCost(cost_tracker.by_user)
    IN  /\ program = "demo_complete"
        /\ pc[h] = Idle
        /\ pc' = [pc EXCEPT ![h] = At("rows")]
        /\ frame' = [frame EXCEPT
                        ![h].sorted_users = [i \in 1..Len(items) |-> items[i][1]],
                        ![h].produced = items]
        /\ UNCHANGED <<program, user_budgets, cost_tracker, ret, commits>>

\* lines 759-796: the rows of sorted_users, their totals, and the teams
print_chargeback_report_rows(h) ==
    LET sorted_users == [i \in 1..Len(frame[h].sorted_users) |->
                            <<frame[h].sorted_users[i],
                              Get(cost_tracker.by_user, frame[h].sorted_users[i])>>]
        report == ChargebackReport(cost_tracker)
    IN  /\ pc[h] = At("rows")
        /\ ret' = Ret("print_chargeback_report", NoId, None, FALSE,
                      <<[report EXCEPT
                            !.sorted_users = sorted_users,
                            !.user_total =
                                [requests      |-> SumInt(Column(sorted_users, "requests")),
                                 input_tokens  |-> SumInt(Column(sorted_users, "input_tokens")),
                                 output_tokens |-> SumInt(Column(sorted_users, "output_tokens")),
                                 cost          |-> cost_tracker.total_cost]]>>)
        /\ pc' = [pc EXCEPT ![h] = Returned]
        /\ UNCHANGED <<program, user_budgets, cost_tracker, commits, frame>>

LiveUserIds == {"charlie", "rate-limit-test"}

NextLive ==
    \/ \E u \in LiveUserIds, r \in ConcResponses :
           send_anthropic_message(u, FALSE, TRUE, r)
    \/ \E h \in Handlers : print_chargeback_report_sorted(h)
    \/ \E h \in Handlers : print_chargeback_report_rows(h)

SpecLive == InitConc /\ [][NextLive]_vars

(***************************************************************************)
(* check_budget and update_budget of demo_complete.py called on their own, *)
(* with the amounts a caller may pass, negative ones included              *)
(***************************************************************************)
\* the floats 0.006 and -0.006
D_0_006 == <<24969216, 19864223, 201326, 0>>
LedgerAmounts == {Negated(D_0_006), Zero, D_0_006}
LedgerEstimates == LedgerAmounts \cup {D_0_02}
LedgerUserIds == {"charlie", "rate-limit-test"}

\* bound on the number of update_budget calls
MaxCommits == 3

\* can_proceed, message = check_budget(user_id, estimated_cost)
check_budget_call(user_id, estimated_cost) ==
    /\ program = "demo_complete"
    /\ ret' = Ret("check_budget", user_id,
                  check_budget(user_budgets, user_id, estimated_cost), FALSE,
                  <<"returned", estimated_cost>>)
    /\ UNCHANGED <<program, user_budgets, cost_tracker, commits, pc, frame>>

\* update_budget(user_id, cost)
update_budget_call(user_id, cost) ==
    /\ program = "demo_complete"
    /\ Len(commits) < MaxCommits
    /\ user_budgets' = update_budget(user_budgets, user_id, cost)
    /\ commits' = Append(commits, <<user_id, cost>>)
    /\ ret' = Ret("update_budget", user_id, None, FALSE, <<"returned", cost>>)
    /\ UNCHANGED <<program, cost_tracker, pc, frame>>

NextLedger ==
    \/ \E u \in LedgerUserIds, e \in LedgerEstimates : check_budget_call(u, e)
    \/ \E u \in LedgerUserIds, c \in LedgerAmounts : update_budget_call(u, c)

SpecLedger == InitConc /\ [][NextLedger]_vars

(***************************************************************************)
(* The cost calculators of both scripts called on their own, with token    *)
(* counts and model names a caller may pass: the listed model of each       *)
(* pricing table, a Claude model that no table lists, and the models of    *)
(* the other providers                                                     *)
(***************************************************************************)
CalcTokens == {1, 15, 100, 4800, 100000}
CalcModels == {"claude-haiku-4-5-20251001", "claude-3-opus",
               "gpt-4o-mini", "grok-4-fast-reasoning"}

\* what a calculator call leaves behind: that it returned, the cost, and
\* the arguments it was called with
Calculated(cost, model, input_tokens, output_tokens) ==
    <<"returned", cost, model, input_tokens, output_tokens>>

calculate_anthropic_cost_call(input_tokens, output_tokens) ==
    /\ program = "demo_complete"
    /\ ret' = Ret("calculate_anthropic_cost", NoId, None, FALSE,
                  Calculated(calculate_anthropic_cost(input_tokens, output_tokens),
                             "claude-haiku-4-5-20251001",
                             input_tokens, output_tokens))
    /\ UNCHANGED <<program, user_budgets, cost_tracker, commits, pc, frame>>

calculate_openai_cost_call(input_tokens, output_tokens, model) ==
    /\ program = "demo_complete"
    /\ ret' = Ret("calculate_openai_cost", NoId, None, FALSE,
                  Calculated(calculate_openai_cost(input_tokens, output_tokens, model),
                             model, input_tokens, output_tokens))
    /\ UNCHANGED <<program, user_budgets, cost_tracker, commits, pc, frame>>

calculate_grok_cost_call(input_tokens, output_tokens, model) ==
    /\ program = "demo_complete"
    /\ ret' = Ret("calculate_grok_cost", NoId, None, FALSE,
                  Calculated(calculate_grok_cost(input_tokens, output_tokens, model),
                             model, input_tokens, output_tokens))
    /\ UNCHANGED <<program, user_budgets, cost_tracker, commits, pc, frame>>

calculate_cost_call(input_tokens, output_tokens, model) ==
    /\ program = "demo_proxy"
    /\ ret' = Ret("calculate_cost", NoId, None, FALSE,
                  Calculated(calculate_cost(input_tokens, output_tokens, model),
                             model, input_tokens, output_tokens))
    /\ UNCHANGED <<program, user_budgets, cost_tracker, commits, pc, frame>>

NextCalculator ==
    \/ \E i \in CalcTokens, o \in CalcTokens :
           calculate_anthropic_cost_call(i, o)
    \/ \E i \in CalcTokens, o \in CalcTokens, m \in CalcModels :
           calculate_openai_cost_call(i, o, m)
    \/ \E i \in CalcTokens, o \in CalcTokens, m \in CalcModels :
           calculate_grok_cost_call(i, o, m)
    \/ \E i \in CalcTokens, o \in CalcTokens, m \in CalcModels :
           calculate_cost_call(i, o, m)

SpecCalculator == Init /\ [][NextCalculator]_vars

(***************************************************************************)
(* Properties.  All sums and comparisons of amounts are the program's:     *)
(* IEEE double addition, rounded to nearest, ties to even.                 *)
(***************************************************************************)
\* the costs update_budget was called with for user u, in order
CommittedCosts(u) ==
    LET cs == SelectSeq(commits, LAMBDA c : c[1] = u)
    IN  [i \in 1..Len(cs) |-> cs[i][2]]

Front(xs) == SubSeq(xs, 1, Len(xs) - 1)
Last(xs) == xs[Len(xs)]

\* the answer makes the handler call update_budget and track_request
Recorded(resp) == ~resp.raises /\ resp.status_code = 200 /\ resp.usage # None

\* estimates check_budget is asked about: nothing, the handlers' estimate,
\* the cost of a long reply, and the whole of the lowest limit
Estimates == {Zero, EstimatedCost, calculate_anthropic_cost(15, 4800), D_0_02}

\* 1000 dollars
Thousand == [Zero EXCEPT ![Limbs] = 1000]

\* C1: for every user in user_budgets and every estimate, check_budget
\* allows exactly when spent + estimate does not exceed the limit, and a
\* refusal carries the message that reports the limit and the amount spent
C1_AllowedIffWithinLimit ==
    \A u \in DOMAIN user_budgets, e \in Estimates :
        LET user == user_budgets[u]
            r    == check_budget(user_budgets, u, e)
        IN  /\ r[1] <=> ~FGt(FAdd(user.spent, e), user.limit)
            /\ ~r[1] => r[2] = <<"Budget exceeded. Limit: $", Fmt4(user.limit),
                                 ", Spent: $", Fmt4(user.spent)>>

\* charlie has just been refused, with one more estimate over the limit
C1_Refused ==
    /\ ret.fn = "send_anthropic_message"
    /\ ret.user_id = "charlie"
    /\ ret.chk # None
    /\ ~ret.chk[1]
    /\ ~ret.posted
    /\ FGt(FAdd(user_budgets["charlie"].spent, EstimatedCost),
           user_budgets["charlie"].limit)

\* C2: for a user that is not in user_budgets, check_budget allows every
\* estimate, however large, and update_budget changes nothing: no entry is
\* made and no user's spend or limit moves, whatever state the call finds
C2_UnknownUserUnlimited ==
    [][\A u \in UserIds, show \in BOOLEAN, r \in Responses :
          (/\ Truthy(u)
           /\ u \notin DOMAIN user_budgets
           /\ ret'.user_id = u
           /\ send_anthropic_message(u, show, TRUE, r))
          => /\ ret'.chk = <<TRUE, NoMessage>>
             /\ ret'.posted
             /\ user_budgets' = user_budgets
             /\ \A e \in Estimates \cup {Thousand} :
                   /\ check_budget(user_budgets, u, e) = <<TRUE, NoMessage>>
                   /\ update_budget(user_budgets, u, e) = user_budgets]_vars

\* a request of an unknown user went through the budget check and was
\* recorded, while charlie has money spent
C2_UnknownUserServed ==
    /\ ret.fn = "send_anthropic_message"
    /\ ret.user_id = "rate-limit-test"
    /\ ret.chk = <<TRUE, NoMessage>>
    /\ ret.value # None
    /\ ret.value[1]
    /\ "rate-limit-test" \notin DOMAIN user_budgets
    /\ FGt(user_budgets["charlie"].spent, Zero)

\* C3: the budget check reads and never writes: a call that is refused, and
\* a call that is admitted and then abandoned because the answer never
\* leads to update_budget and track_request, leave user_budgets, the
\* requests and all aggregates as they were
C3_CheckIsPureRead ==
    [][\A u \in UserIds, show \in BOOLEAN, r \in Responses :
          (/\ ret'.user_id = u
           /\ ret'.chk # None
           /\ (~ret'.chk[1] \/ ~Recorded(r))
           /\ send_anthropic_message(u, show, TRUE, r))
          => UNCHANGED <<user_budgets, cost_tracker, commits>>]_vars

\* charlie, with money spent, was admitted, and the gateway answered 500
C3_AdmittedAndAbandoned ==
    /\ ret.fn = "send_anthropic_message"
    /\ ret.user_id = "charlie"
    /\ ret.chk = <<TRUE, NoMessage>>
    /\ ret.value = <<FALSE, None, Zero, <<500>>>>
    /\ commits # <<>>
    /\ user_budgets["charlie"].spent = SumFloat(CommittedCosts("charlie"))

\* C4: once admitted and answered with usage, the handler's update_budget
\* adds the actual cost to the user's spent, whether or not that passes the
\* limit or the estimate, and changes nothing else in user_budgets
C4_CommitAddsActualCost ==
    [][\A u \in UserIds \cap DOMAIN user_budgets, show \in BOOLEAN,
          r \in Responses :
          (/\ ret'.user_id = u
           /\ ret'.chk # None
           /\ ret'.chk[1]
           /\ Recorded(r)
           /\ send_anthropic_message(u, show, TRUE, r))
          => user_budgets' =
                [user_budgets EXCEPT ![u].spent =
                    FAdd(@, calculate_anthropic_cost(r.usage[1][1],
                                                     r.usage[1][2]))]]_vars

\* charlie's last charge was larger than the estimate and took the spend
\* over the limit
C4_ChargedPastLimit ==
    /\ commits # <<>>
    /\ Last(commits)[1] = "charlie"
    /\ FGt(Last(commits)[2], EstimatedCost)
    /\ FGt(user_budgets["charlie"].spent, user_budgets["charlie"].limit)

\* C5: each user's spent is the sum of the costs update_budget was called
\* with for that user, also when handlers run at the same time
C5_SpendIsSumOfCommits ==
    \A u \in DOMAIN user_budgets :
        user_budgets[u].spent = SumFloat(CommittedCosts(u))

C7_AdmissionIgnoresInFlight ==
    [][\A h \in Handlers, u \in DOMAIN user_budgets :
          check_then_post(h, u)
          => (pc'[h] = At("post")
                 <=> ~FGt(FAdd(user_budgets[u].spent, EstimatedCost),
                          user_budgets[u].limit))]_vars

\* both handlers have returned, the last two charges are charlie's, each of
\* the estimated cost, and charlie is over the limit
C7_BothAdmittedOvershoot ==
    /\ \A h \in Handlers : pc[h] = Returned
    /\ Len(commits) >= 2
    /\ commits[Len(commits)] = <<"charlie", EstimatedCost>>
    /\ commits[Len(commits) - 1] = <<"charlie", EstimatedCost>>
    /\ FGt(user_budgets["charlie"].spent, user_budgets["charlie"].limit)

C9_ThreeWayConservation ==
    LET requests == cost_tracker.requests
    IN  /\ cost_tracker.total_cost =
               SumFloat([i \in 1..Len(requests) |-> requests[i].cost])
        /\ cost_tracker.total_cost =
               SumFloat(Column(cost_tracker.by_user, "cost"))
        /\ cost_tracker.total_cost =
               SumFloat(Column(TeamCosts(requests), "cost"))

\* the requests of user_key
RequestsOf(user_key) ==
    SelectSeq(cost_tracker.requests, LAMBDA req : req.user_id = user_key)

\* C10: whenever no handler is inside track_request, the by_user entries
\* and total_cost account for exactly the requests in the sequence; no
\* update is lost when handlers run at the same time
C10_RecordAtomic ==
    Running = {} =>
        LET requests == cost_tracker.requests
        IN  /\ Keys(cost_tracker.by_user) =
                   {requests[i].user_id : i \in 1..Len(requests)}
            /\ \A k \in Keys(cost_tracker.by_user) :
                   LET stats == Get(cost_tracker.by_user, k)
                       mine  == RequestsOf(k)
                   IN  /\ stats.requests = Len(mine)
                       /\ stats.input_tokens =
                              SumInt([i \in 1..Len(mine) |-> mine[i].input_tokens])
                       /\ stats.output_tokens =
                              SumInt([i \in 1..Len(mine) |-> mine[i].output_tokens])
                       /\ stats.cost =
                              SumFloat([i \in 1..Len(mine) |-> mine[i].cost])
            /\ cost_tracker.total_cost =
                   SumFloat([i \in 1..Len(requests) |-> requests[i].cost])

\* n times <<"charlie", 0.006>>
SixThousandths(n) == [i \in 1..n |-> <<"charlie", D_0_006>>]

\* C15: with nothing charged to charlie but n times 0.006, a check of
\* charlie for 0.006 is allowed when n is 0, 1 or 2 and refused from n = 3
\* on, where the refusal reports limit 0.0200 and spent 0.0180; the check
\* leaves the spend at the sum of the n charges
C15_ScenarioA ==
    \A n \in 0..MaxCommits :
        (/\ commits = SixThousandths(n)
         /\ ret.fn = "check_budget"
         /\ ret.user_id = "charlie"
         /\ ret.value = <<"returned", D_0_006>>)
        => /\ ret.chk[1] <=> n < 3
           /\ n = 3 => ret.chk[2] = <<"Budget exceeded. Limit: $", 200,
                                      ", Spent: $", 180>>
           /\ user_budgets["charlie"].spent =
                  SumFloat([i \in 1..n |-> D_0_006])
           /\ user_budgets["charlie"].limit = D_0_02

\* the fourth check, after three charges of 0.006, has been refused
C15_FourthRefused ==
    /\ commits = SixThousandths(3)
    /\ ret.fn = "check_budget"
    /\ ret.user_id = "charlie"
    /\ ret.value = <<"returned", D_0_006>>
    /\ ~ret.chk[1]
    /\ user_budgets["charlie"].spent = FAdd(FAdd(D_0_006, D_0_006), D_0_006)

\* C16: when the last call was a check that was refused, so that nothing
\* has been charged since, a check of the same user for any estimate that
\* is not smaller is refused too
C16_AdmissionMonotone ==
    (ret.fn = "check_budget" /\ ~ret.chk[1]) =>
        \A e \in LedgerEstimates :
            ~FGt(ret.value[2], e) =>
                ~check_budget(user_budgets, ret.user_id, e)[1]

\* charlie, with money spent, was refused 0.006, and 0.02 is larger
C16_RefusedSmaller ==
    /\ ret.fn = "check_budget"
    /\ ret.user_id = "charlie"
    /\ ret.value = <<"returned", D_0_006>>
    /\ ~ret.chk[1]
    /\ FGt(D_0_02, D_0_006)
    /\ FGt(user_budgets["charlie"].spent, Zero)
    /\ ~check_budget(user_budgets, "charlie", D_0_02)[1]

\* C19: a check_budget or update_budget call with a negative amount fails
\* with InvalidCost: it gives no answer about admission and leaves every
\* user's spent as it was
C19_NegativeCostRejected ==
    [][\A u \in LedgerUserIds, a \in LedgerAmounts :
          (/\ IsNegative(a)
           /\ ret'.user_id = u
           /\ check_budget_call(u, a) \/ update_budget_call(u, a))
          => /\ ret'.value[1] = "InvalidCost"
             /\ ret'.chk = None
             /\ user_budgets' = user_budgets]_vars

\* the floats 0.01 and 0.03, and 100 * 0.0000008 + 50 * 0.000004 = 0.00028
D_0_01 == <<8060928, 10737418, 335544, 0>>
D_0_03 == <<24117248, 32212254, 1006632, 0>>
D_0_00028 == calculate_cost(100, 50, "claude-haiku-4-5-20251001")

\* C11: a call that records without a user stores the record under
\* "anonymous" and adds it to the "anonymous" entry of by_user, one without
\* a team stores team "none", either independently of the other, and a user
\* or team that is given is stored as given
C11_AbsentIdsSubstituted ==
    [][\A c \in RecorderCallers, r \in RecorderResponses :
          (/\ ret'.user_id = c[1]
           /\ send_message(FALSE, c[1], c[2], r))
          => LET user == IF c[1] = NoId THEN "anonymous" ELSE c[1]
                 team == IF c[2] = NoId THEN "none" ELSE c[2]
                 cost == calculate_cost(r.usage[1][1], r.usage[1][2],
                                        "claude-haiku-4-5-20251001")
                 old  == IF user \in Keys(cost_tracker.by_user)
                         THEN Get(cost_tracker.by_user, user)
                         ELSE [requests |-> 0, input_tokens |-> 0,
                               output_tokens |-> 0, cost |-> Zero]
             IN  /\ Len(cost_tracker'.requests) = Len(cost_tracker.requests) + 1
                 /\ Last(cost_tracker'.requests) =
                        [user_id |-> user, team_id |-> team,
                         input_tokens |-> r.usage[1][1],
                         output_tokens |-> r.usage[1][2], cost |-> cost]
                 /\ user \in Keys(cost_tracker'.by_user)
                 /\ NoId \notin Keys(cost_tracker'.by_user)
                 /\ Get(cost_tracker'.by_user, user) =
                        [requests |-> old.requests + 1,
                         input_tokens |-> old.input_tokens + r.usage[1][1],
                         output_tokens |-> old.output_tokens + r.usage[1][2],
                         cost |-> FAdd(old.cost, cost)]
                 /\ \A k \in Keys(cost_tracker.by_user) \ {user} :
                        Get(cost_tracker'.by_user, k) = Get(cost_tracker.by_user, k)]_vars

\* the one request recorded came without user and team, with 100 input and
\* 50 output tokens, and the report lists "anonymous" with it; and a
\* request without a user kept its team
C11_AnonymousRecorded ==
    /\ Len(cost_tracker.requests) = 2
    /\ cost_tracker.requests[1] =
           [user_id |-> "anonymous", team_id |-> "none", input_tokens |-> 100,
            output_tokens |-> 50, cost |-> D_0_00028]
    /\ cost_tracker.requests[2].user_id = "anonymous"
    /\ cost_tracker.requests[2].team_id = "engineering"
    /\ Get(cost_tracker.by_user, "anonymous").requests = 2
    /\ ret.fn = "print_chargeback_report"
    /\ ret.value[1].sorted_users[1][1] = "anonymous"

\* alice and bob of engineering and diana of marketing, in that order,
\* with costs 0.01, 0.02 and 0.03
ScenarioC ==
    /\ Len(cost_tracker.requests) = 3
    /\ cost_tracker.requests[1] =
           [user_id |-> "alice", team_id |-> "engineering", input_tokens |-> 0,
            output_tokens |-> 2500, cost |-> D_0_01]
    /\ cost_tracker.requests[2] =
           [user_id |-> "bob", team_id |-> "engineering", input_tokens |-> 0,
            output_tokens |-> 5000, cost |-> D_0_02]
    /\ cost_tracker.requests[3] =
           [user_id |-> "diana", team_id |-> "marketing", input_tokens |-> 0,
            output_tokens |-> 7500, cost |-> D_0_03]
    /\ ret.fn = "print_chargeback_report"

\* C14: in scenario C the report lists marketing (1 request, 0.03) before
\* engineering (2 requests, 0.03)
C14_MarketingFirst ==
    ScenarioC =>
        ret.value[1].sorted_teams =
            << << <<"marketing", [cost |-> D_0_03, requests |-> 1]>>,
                  <<"engineering", [cost |-> D_0_03, requests |-> 2]>> >> >>

\* C14, as the code has it: in scenario C the report lists engineering
\* (2 requests, 0.01 + 0.02 = 0.03) before marketing (1 request, 0.03):
\* the totals are equal and engineering was recorded first
C14_EngineeringFirst ==
    ScenarioC =>
        ret.value[1].sorted_teams =
            << << <<"engineering", [cost |-> D_0_03, requests |-> 2]>>,
                  <<"marketing", [cost |-> D_0_03, requests |-> 1]>> >> >>

\* scenario C has been run and reported, with two teams at 0.03 each
C14_ScenarioReported ==
    /\ ScenarioC
    /\ Len(ret.value[1].sorted_teams[1]) = 2
    /\ ret.value[1].sorted_teams[1][1][2].cost = ret.value[1].sorted_teams[1][2][2].cost

\* the identifiers of users and teams in ascending order, as strings compare
IdsAscending ==
    <<"alice", "anonymous", "bob", "charlie", "demo-user", "diana",
      "engineering", "marketing", "none", "product", "rate-limit-test">>
IdLess(a, b) ==
    \E i, j \in 1..Len(IdsAscending) :
        i < j /\ IdsAscending[i] = a /\ IdsAscending[j] = b

\* items, a sequence of <<identifier, aggregate>>, is in descending order of
\* cost, and items of equal cost are in ascending order of identifier
DescendingTiesByIdentifier(items) ==
    \A i, j \in 1..Len(items) :
        i < j => \/ FGt(items[i][2].cost, items[j][2].cost)
                 \/ /\ items[i][2].cost = items[j][2].cost
                    /\ IdLess(items[i][1], items[j][1])

\* the same, with items of equal cost in the order given by rank
DescendingTiesByRank(items, rank(_)) ==
    \A i, j \in 1..Len(items) :
        i < j => \/ FGt(items[i][2].cost, items[j][2].cost)
                 \/ /\ items[i][2].cost = items[j][2].cost
                    /\ rank(items[i][1]) < rank(items[j][1])

\* items lists every entry of by_user once, with the aggregate it has there
ListsByUser(items) ==
    /\ Len(items) = Len(cost_tracker.by_user)
    /\ {items[i] : i \in 1..Len(items)} =
           {cost_tracker.by_user[i] : i \in 1..Len(cost_tracker.by_user)}

\* the position of the first request of user_key, and of team
FirstOfUser(user_key) ==
    CHOOSE i \in 1..Len(cost_tracker.requests) :
        /\ cost_tracker.requests[i].user_id = user_key
        /\ \A j \in 1..(i - 1) : cost_tracker.requests[j].user_id # user_key
FirstOfTeam(team) ==
    CHOOSE i \in 1..Len(cost_tracker.requests) :
        /\ cost_tracker.requests[i].team_id = team
        /\ \A j \in 1..(i - 1) : cost_tracker.requests[j].team_id # team

\* C12: the per-user table of the report lists the by_user entries in
\* descending order of cost, users of equal cost in ascending order of
\* user id
C12_UsersTiesByIdentifier ==
    ret.fn = "print_chargeback_report" =>
        /\ ListsByUser(ret.value[1].sorted_users)
        /\ DescendingTiesByIdentifier(ret.value[1].sorted_users)

\* C12, as the code has it: the per-user table lists the by_user entries in
\* descending order of cost, users of equal cost in the order in which they
\* were first recorded
C12_UsersTiesByFirstRecord ==
    ret.fn = "print_chargeback_report" =>
        /\ ListsByUser(ret.value[1].sorted_users)
        /\ DescendingTiesByRank(ret.value[1].sorted_users, FirstOfUser)

\* the report lists a cheaper user after a dearer one, and two users of
\* equal cost of which the one recorded first has the greater identifier
C12_TieReported ==
    /\ ret.fn = "print_chargeback_report"
    /\ LET items == ret.value[1].sorted_users
       IN  /\ Len(items) = 3
           /\ items[1][2].cost = items[2][2].cost
           /\ IdLess(items[2][1], items[1][1])
           /\ FGt(items[2][2].cost, items[3][2].cost)

\* the teams of the requests, and the requests of one team
TeamsRecorded ==
    {cost_tracker.requests[i].team_id : i \in 1..Len(cost_tracker.requests)}
RequestsOfTeam(team) ==
    SelectSeq(cost_tracker.requests, LAMBDA req : req.team_id = team)

\* items lists every team of the requests once, with the number of its
\* requests and the sum of their costs
Regrouped(items) ==
    /\ Len(items) = Cardinality(TeamsRecorded)
    /\ {items[i][1] : i \in 1..Len(items)} = TeamsRecorded
    /\ \A i \in 1..Len(items) :
           LET mine == RequestsOfTeam(items[i][1])
           IN  items[i][2] =
                   [cost     |-> SumFloat([k \in 1..Len(mine) |-> mine[k].cost]),
                    requests |-> Len(mine)]

\* C13: the per-team table of the report has one row for every team of the
\* requests ("none" for requests without a team), with the number of the
\* team's requests and the sum of their costs, in descending order of
\* cost, teams of equal cost in ascending order of team id
C13_TeamsTiesByIdentifier ==
    ret.fn = "print_chargeback_report" =>
        LET sorted_teams == ret.value[1].sorted_teams
        IN  IF sorted_teams = None
            THEN TeamsRecorded \subseteq {"none"}
            ELSE /\ Regrouped(sorted_teams[1])
                 /\ DescendingTiesByIdentifier(sorted_teams[1])

\* C13, as the code has it: the per-team table is produced unless "none"
\* is the only team of the requests; it then has one row for every team of
\* the requests, "none" included, with the number of the team's requests
\* and the sum of their costs, in descending order of cost, teams of equal
\* cost in the order in which they were first recorded
C13_TeamsTiesByFirstRecord ==
    ret.fn = "print_chargeback_report" =>
        LET sorted_teams == ret.value[1].sorted_teams
        IN  /\ sorted_teams = None <=> TeamsRecorded = {"none"}
            /\ sorted_teams # None =>
                   /\ Regrouped(sorted_teams[1])
                   /\ DescendingTiesByRank(sorted_teams[1], FirstOfTeam)

\* the report lists "none", with the request of a caller without team,
\* before "engineering", which has two requests and a smaller total
C13_NoneBucketReported ==
    /\ ret.fn = "print_chargeback_report"
    /\ ret.value[1].sorted_teams # None
    /\ LET items == ret.value[1].sorted_teams[1]
       IN  /\ Len(items) = 2
           /\ items[1][1] = "none"
           /\ items[2][1] = "engineering"
           /\ items[2][2].requests = 2
           /\ FGt(items[1][2].cost, items[2][2].cost)

Senders ==
    {"send_anthropic_message", "send_openai_message", "send_grok_message",
     "send_message"}

\* C20: a call of demo_complete.py that sends a request either succeeds,
\* and then has appended exactly one request, added it once to the by_user
\* entry and the total, and charged user_budgets at most once and with the
\* recorded cost, or it fails, and then has changed nothing
C20_AllOrNothing ==
    [][(program = "demo_complete" /\ ret'.fn \in Senders) =>
          IF ret'.value # None /\ ret'.value[1]
          THEN /\ Len(cost_tracker'.requests) = Len(cost_tracker.requests) + 1
               /\ LET req == Last(cost_tracker'.requests)
                      old == StatsOf(cost_tracker.by_user, req.user_id)
                  IN  /\ Front(cost_tracker'.requests) = cost_tracker.requests
                      /\ Get(cost_tracker'.by_user, req.user_id) =
                             [requests      |-> old.requests + 1,
                              input_tokens  |-> old.input_tokens + req.input_tokens,
                              output_tokens |-> old.output_tokens + req.output_tokens,
                              cost          |-> FAdd(old.cost, req.cost)]
                      /\ cost_tracker'.total_cost =
                             FAdd(cost_tracker.total_cost, req.cost)
                      /\ \/ UNCHANGED <<user_budgets, commits>>
                         \/ /\ commits' = Append(commits, <<ret'.user_id, req.cost>>)
                            /\ user_budgets' =
                                   update_budget(user_budgets, ret'.user_id, req.cost)
          ELSE UNCHANGED <<user_budgets, cost_tracker, commits>>]_vars

\* C18: the per-user rows a report prints are the entries sorted_users was
\* made of, with the values they had then: a request recorded after the
\* list was made changes neither its keys, nor its values, nor its order
C18_ReportIsSnapshot ==
    [][\A h \in Handlers :
          print_chargeback_report_rows(h)
          => ret'.value[1].sorted_users = frame[h].produced]_vars

(***************************************************************************)
(* C21: the list of request records is append-only and in insertion order: *)
(* every step of either script leaves cost_tracker["requests"] as it was   *)
(* or adds exactly one record at its end; the records before it stay where *)
(* they were and as they were.                                             *)
(***************************************************************************)
C21_RequestsAppendOnly ==
    [][\/ cost_tracker'.requests = cost_tracker.requests
       \/ /\ Len(cost_tracker'.requests) = Len(cost_tracker.requests) + 1
          /\ Front(cost_tracker'.requests) = cost_tracker.requests]_vars

\* two requests of different users were recorded one after the other, and
\* the second one is the one the last call recorded
C21_SecondAppended ==
    /\ program = "demo_complete"
    /\ Len(cost_tracker.requests) = 2
    /\ cost_tracker.requests[1].user_id = "anonymous"
    /\ cost_tracker.requests[2].user_id = "charlie"
    /\ ret.fn = "send_anthropic_message"
    /\ ret.user_id = "charlie"
    /\ ret.value # None
    /\ ret.value[1]

\* the provider whose model this is: OpenAI's and xAI's are the ones their
\* tables list, any other name in CalcModels is a Claude model
ProviderOf(model) ==
    IF model \in DOMAIN OPENAI_PRICING THEN "openai"
    ELSE IF model \in DOMAIN GROK_PRICING THEN "grok"
    ELSE "anthropic"

Calculators == {"calculate_anthropic_cost", "calculate_openai_cost",
                "calculate_grok_cost", "calculate_cost"}

\* the one entry of the calculator's provider, which is also its default
UnitCosts(fn) ==
    CASE fn = "calculate_openai_cost" -> [input |-> OpenAI_input, output |-> OpenAI_output]
      [] fn = "calculate_grok_cost"   -> [input |-> Grok_input, output |-> Grok_output]
      [] OTHER -> [input |-> Anthropic_input, output |-> Anthropic_output]

(***************************************************************************)
(* C22: a cost calculator changes nothing and returns                      *)
(* input_tokens * unit_input_cost + output_tokens * unit_output_cost for   *)
(* the entry of the model; for a model that the provider's pricing table   *)
(* does not list it uses the provider's default entry; and for a provider  *)
(* that the pricing table does not know it fails with UnknownProvider.     *)
(* demo_complete.py has one calculator for each provider it knows;         *)
(* calculate_cost of demo_proxy.py has one table, of Anthropic only, and   *)
(* is given the model.                                                     *)
(***************************************************************************)
C22_CostOrUnknownProvider ==
    ret.fn \in Calculators =>
        LET model         == ret.value[3]
            input_tokens  == ret.value[4]
            output_tokens == ret.value[5]
            unit          == UnitCosts(ret.fn)
        IN  /\ user_budgets = UserBudgets0
            /\ cost_tracker = CostTracker0
            /\ IF ret.fn = "calculate_cost" /\ ProviderOf(model) # "anthropic"
               THEN ret.value[1] = "UnknownProvider"
               ELSE /\ ret.value[1] = "returned"
                    /\ ret.value[2] = FAdd(FMulInt(input_tokens, unit.input),
                                           FMulInt(output_tokens, unit.output))

(***************************************************************************)
(* C23: the totals row of the per-user table of the report is the sum of   *)
(* its columns: its request count is the number of request records, its    *)
(* input and output tokens are the sums over all records, and the cost it  *)
(* shows, the running total_cost, is the sum of the cost column of the     *)
(* rows, added from the top row down.                                      *)
(***************************************************************************)
C23_TotalsRowIsColumnSum ==
    ret.fn = "print_chargeback_report" =>
        LET report   == ret.value[1]
            requests == cost_tracker.requests
        IN  /\ report.user_total.requests = Len(requests)
            /\ report.user_total.input_tokens =
                   SumInt([i \in 1..Len(requests) |-> requests[i].input_tokens])
            /\ report.user_total.output_tokens =
                   SumInt([i \in 1..Len(requests) |-> requests[i].output_tokens])
            /\ report.user_total.cost =
                   SumFloat(Column(report.sorted_users, "cost"))

(***************************************************************************)
(* C24: send_anthropic_message changes user_budgets and cost_tracker only  *)
(* when the gateway answers 200 with usage.  A call that the budget check  *)
(* refuses returns (False, None, 0, 429) and sends nothing; a refused      *)
(* call, and a call answered by an exception, a 429, another status or a   *)
(* 200 without usage, leaves user_budgets and all of cost_tracker (the     *)
(* requests, the by_user entries and total_cost) as they were.             *)
(***************************************************************************)
C24_ChangesOnlyOnUsage ==
    [][LET Unchanged ==
               /\ user_budgets' = user_budgets
               /\ cost_tracker'.requests = cost_tracker.requests
               /\ cost_tracker'.by_user = cost_tracker.by_user
               /\ cost_tracker'.total_cost = cost_tracker.total_cost
       IN  /\ \A u \in UserIds :
                 (/\ ret'.fn = "send_anthropic_message"
                  /\ ret'.user_id = u
                  /\ Truthy(u)
                  /\ ~check_budget(user_budgets, u, EstimatedCost)[1]
                  /\ \E show \in BOOLEAN, r \in Responses :
                         send_anthropic_message(u, show, TRUE, r))
                 => /\ ret'.value = <<FALSE, None, Zero, <<429>>>>
                    /\ ~ret'.posted
                    /\ Unchanged
           \* a call that changes anything was not answered without usage
           /\ (ret'.fn = "send_anthropic_message" /\ ~Unchanged) =>
                 \A u \in UserIds, show \in BOOLEAN, flag \in BOOLEAN,
                    r \in {x \in Responses : ~Recorded(x)} :
                    ~send_anthropic_message(u, show, flag, r)]_vars

\* with two requests recorded and money spent, charlie was refused and
\* nothing was sent
C24_DeniedNothingSent ==
    /\ ret.fn = "send_anthropic_message"
    /\ ret.user_id = "charlie"
    /\ ret.value = <<FALSE, None, Zero, <<429>>>>
    /\ ~ret.posted
    /\ Len(cost_tracker.requests) = 2
    /\ FGt(user_budgets["charlie"].spent, Zero)

(***************************************************************************)
(* C25: every call of send_anthropic_message returns four values           *)
(* (success, data, cost, status) and every call of send_openai_message or  *)
(* send_grok_message returns three (success, data, cost), whatever the     *)
(* gateway answers, a 200 without "usage" included, so that the callers    *)
(* that unpack the result never fail.                                      *)
(***************************************************************************)
C25_ReturnsTuple ==
    /\ ret.fn = "send_anthropic_message" => Len(ret.value) = 4
    /\ ret.fn \in {"send_openai_message", "send_grok_message"} =>
           Len(ret.value) = 3

=============================================================================
